---- MODULE Spec2Model ----
(***************************************************************************)
(* Model of train.py: the supervisor loop (__main__), one attempt (main),  *)
(* the run initialisation (save at step 0, else load), and the step loop   *)
(* (train, checkpoint schedule, evaluation schedule, increment).           *)
(*                                                                         *)
(* The Model Handle (build_model(...).save / .load) and the Dataset        *)
(* Provider (TFRecordNewInputs) are imported by train.py but are not part  *)
(* of the sources at hand; they are modelled from their interface          *)
(* contract: SaveInit, SaveStep, Load, TFRecordNewInputs, GetSamples and   *)
(* GetState below.                                                         *)
(***************************************************************************)
EXTENDS Integers, FiniteSets, Sequences, TLC

\* ------------------------------------------------------------------ bounds
MaxStep == 3          \* the step counter is explored up to this value
MaxFaults == 1        \* number of injected non-cancellation faults
MaxSupervisorFaults == 2  \* the same, where the supervisor alone is observed
MaxCkptEvery == 2     \* params["ckpt_every"] ranges over 1..MaxCkptEvery
MaxKeepEvery == 2     \* params["keep_every"] ranges over 1..MaxKeepEvery
MaxValEvery == 2      \* params["val_every"] ranges over 1..MaxValEvery
MaxValBatches == 2    \* params["val_batches"] ranges over 1..MaxValBatches

\* ------------------------------------------------------------- constants
None == -1            \* Python's None where a step or a cursor is expected

ExcKinds == {"KeyboardInterrupt", "Exception", "SystemExit"}

\* lines 133-147 with the first two tasks in the other order
TasksReordered == <<"winogrande", "lambada", "piqa", "hellaswag">>

\* the benchmark tasks in the order the step loop runs them (lines 133-147)
Tasks == <<"lambada", "winogrande", "piqa", "hellaswag">>

\* the configured validation sets (params['val_set']), each given by the
\* number of batches one pass over it yields
ValSetLen == <<1, 3>>
NumValSets == Len(ValSetLen)

InitPCs == {"args", "confirm", "build", "save0", "load", "dataset", "compile"}
LoopPCs == {"train", "ckpt", "val", "bench", "inc"}
MainPCs == InitPCs \cup LoopPCs

VARIABLES
  pc,                 \* position of the process
  first,              \* __main__: first
  exc,                \* the exception main() raised, "none" if none
  args_new,           \* args.new (the --new flag)
  ckpt_every,         \* params["ckpt_every"]
  keep_every,         \* params["keep_every"]
  val_every,          \* params["val_every"]
  val_batches,        \* params["val_batches"]
  clean_start,        \* main: clean_start
  step,               \* main: step
  train_load_restore, \* main: train_load_restore
  cursor,             \* train_dataset: number of batches drawn (its state)
  val_cursor,         \* val_sets: per set, number of batches get_samples drew
  task,               \* index in Tasks of the benchmark task to run next
  store,              \* durable checkpoints at gs://bucket/model_dir
  latest,             \* step of the most recently written checkpoint
  \* ---- history variables (observations, they never influence the code)
  faults,             \* injected non-cancellation faults so far
  failures,           \* attempts that failed and were swallowed
  notices,            \* recovery notices printed (line 73)
  warnings,           \* "Failed to restore train loader state" (line 78)
  prompted,           \* this attempt waited on input() (line 37)
  wrote,              \* this iteration wrote a checkpoint
  evalRan,            \* this iteration started an evaluation round
  reported,           \* benchmark tasks reported in this iteration
  failTask,           \* benchmark task that raised in this iteration
  crashStep,          \* step in flight when the previous attempt failed
  written,            \* every <<step, cursor>> the step loop checkpointed
  loopLatest,         \* step of the latest step-loop checkpoint write
  initStore,          \* the store as it was when this attempt started
  saveOk,             \* this attempt's save at step 0 returned
  saveRaised,         \* this attempt's save at step 0 raised an Exception
  loadCalls,          \* calls of t.load in this attempt
  resumedFrom,        \* step this attempt loaded, None if it loaded nothing
  ownData,            \* this process has written a checkpoint
  loadedPrior,        \* an attempt loaded data no attempt of this process wrote
  attempts,           \* calls of main(first) so far (line 156)
  valEvald,           \* per validation set done, the batches passed to t.eval
  roundLog,           \* the operations of this iteration, in order
  loggedAt,           \* step passed to wandb.log at line 113
  faultBudget         \* non-cancellation faults the environment injects

vars == <<pc, first, exc, args_new, ckpt_every, keep_every, val_every,
          clean_start, step, train_load_restore, cursor, task, store, latest,
          faults, failures, notices, warnings, prompted, wrote, evalRan,
          reported, failTask, crashStep, written, loopLatest, initStore,
          val_batches, val_cursor, saveOk, saveRaised, loadCalls, resumedFrom,
          ownData, loadedPrior, attempts, valEvald, roundLog, loggedAt,
          faultBudget>>

config == <<args_new, ckpt_every, keep_every, val_every, val_batches>>

\* what is fixed over the lifetime of the process
env == <<config, faultBudget>>

\* history variables of one attempt, of the process, of one iteration
attemptObs == <<saveOk, saveRaised, loadCalls, resumedFrom>>
lifeObs == <<ownData, loadedPrior, attempts>>
iterObs == <<valEvald, roundLog, loggedAt>>

\* ------------------------------------------------ pure parts of train.py
\* line 42 with the gate on the first attempt left out
CleanStartUngated(new, frst) == new

\* line 42: clean_start = args.new and first
CleanStart(new, frst) == new /\ frst

\* line 115 without the test on step
CkptDueAtZero(s, ce) == s % ce = 0

\* line 115 taking every second multiple of ckpt_every
CkptDueSparse(s, ce) == s % (2 * ce) = 0 /\ s # 0

\* line 115: if step % ckpt_every == 0 and step
CkptDue(s, ce) == s % ce = 0 /\ s # 0

\* line 119: delete_old=step % keep_every != 0
DeleteOld(s, ke) == s % ke # 0

\* line 121 with the test on step that line 115 has
ValDueNotAtZero(s, ve) == s % ve = 0 /\ s # 0

\* line 121: if step % val_every == 0
ValDue(s, ve) == s % ve = 0

\* lines 157-160 with the break under the bare except
BreaksOnAny(e) == TRUE

\* lines 157-160: except KeyboardInterrupt: break / except: pass
Breaks(e) == e = "KeyboardInterrupt"

\* line 124: range(val_batches)
Range(n) == [i \in 1..n |-> i - 1]

\* line 124: zip(a, b) stops as soon as one of the two is exhausted
RECURSIVE Zip(_, _)
Zip(a, b) ==
  IF a = <<>> \/ b = <<>>
    THEN <<>>
    ELSE <<<<Head(a), Head(b)>>>> \o Zip(Tail(a), Tail(b))

\* lines 124-127 with the bound on the number of batches left out
ValPassUnbounded(it, vb) == it

\* lines 124-127: for i, _ in zip(val_set.sample_once(), range(val_batches)):
\* val_loss.append(t.eval(i)); the batches passed to t.eval
ValPass(it, vb) ==
  LET z == Zip(it, Range(vb))
  IN  [k \in 1..Len(z) |-> z[k][1]]

\* line 72 catching a narrower class than the save raises
SaveHandlerCatchesNarrow(e) == FALSE

\* line 72: except Exception as e
SaveHandlerCatches(e) == e = "Exception"

\* line 117: aux={"train_loader": train_dataset.get_state()}
\* an aux payload is a mapping, kept as a set of <<key, value>> pairs
MakeAux(state) == {<<"train_loader", state>>}

\* line 75 with a default of 0 in place of None
AuxGetDefaultZero(aux, key) ==
  IF \E p \in aux : p[1] = key
    THEN (CHOOSE p \in aux : p[1] = key)[2]
    ELSE 0

\* line 75 looking up a key the payload does not have
AuxGetWrongKey(aux, key) == None

\* line 75: aux.get("train_loader", None)
AuxGet(aux, key) ==
  IF \E p \in aux : p[1] = key
    THEN (CHOOSE p \in aux : p[1] = key)[2]
    ELSE None

\* ------------------------------------------ Dataset Provider (interface)
\* TFRecordNewInputs(..., restore_state=r): resume from r, fresh when None
TFRecordNewInputs(r) == IF r = None THEN 0 ELSE r
\* get_samples(): the batch at the cursor, and the cursor moves on by one
GetSamples(c) == c + 1
\* get_state(): snapshot of the cursor
GetState(c) == c
\* sample_once(): one pass over the set from its beginning, whatever the
\* cursor c of get_samples is; the batches are named by their offsets
SampleOnce(len, c) == [i \in 1..len |-> i - 1]

\* ---------------------------------------------- Model Handle (interface)
\* a checkpoint is [step, aux]; at most one per step
Steps(st) == {c.step : c \in st}
Ckpt(st, s) == CHOOSE c \in st : c.step = s

\* save(0, init=True, overwrite=o) raises when data exists and o is false
SaveInitConflict(st, o) == st # {} /\ ~o
\* otherwise it removes what is there and writes the step-0 checkpoint
SaveInit(st) == {[step |-> 0, aux |-> {}]}

\* save(s, aux=a, init=False, delete_old=d): the new checkpoint is written,
\* then the previously written one is deleted when d
SaveStep(st, prev, s, a, d) ==
  LET kept == {c \in st : c.step # s /\ ~(d /\ c.step = prev)}
  IN  kept \cup {[step |-> s, aux |-> a]}

\* load(): the most recent checkpoint's step and aux
Load(st, l) == <<l, Ckpt(st, l).aux>>

\* -------------------------------------------------------------------- Init
\* checkpoint data a previous process may have left at the address
PriorStores ==
  { <<{}, None>>,
    <<{[step |-> 0, aux |-> {}]}, 0>>,
    <<{[step |-> 2, aux |-> MakeAux(4)]}, 2>> }

InitProcess ==
  /\ pc = "supervisor"
  /\ first = TRUE
  /\ exc = "none"
  /\ args_new \in BOOLEAN
  /\ ckpt_every \in 1..MaxCkptEvery
  /\ keep_every \in 1..MaxKeepEvery
  /\ val_every \in 1..MaxValEvery
  /\ val_batches \in 1..MaxValBatches
  /\ clean_start = FALSE
  /\ step = 0
  /\ train_load_restore = None
  /\ cursor = 0
  /\ task = 1
  /\ \E p \in PriorStores : store = p[1] /\ latest = p[2]
  /\ faults = 0
  /\ failures = 0
  /\ notices = 0
  /\ warnings = 0
  /\ prompted = FALSE
  /\ wrote = FALSE
  /\ evalRan = FALSE
  /\ reported = {}
  /\ failTask = "none"
  /\ crashStep = None
  /\ written = {}
  /\ loopLatest = None
  /\ initStore = store
  /\ val_cursor = [i \in 1..NumValSets |-> 0]
  /\ saveOk = FALSE
  /\ saveRaised = FALSE
  /\ loadCalls = 0
  /\ resumedFrom = None
  /\ ownData = FALSE
  /\ loadedPrior = FALSE
  /\ attempts = 0
  /\ valEvald = <<>>
  /\ roundLog = <<>>
  /\ loggedAt = None

Init ==
  /\ InitProcess
  /\ faultBudget = MaxFaults

\* ----------------------------------------------------------------- actions
\* lines 154-156: the supervisor calls main(first)
SupervisorCall ==
  /\ pc = "supervisor"
  /\ pc' = "args"
  /\ exc' = "none"
  /\ clean_start' = FALSE
  /\ step' = 0
  /\ train_load_restore' = None
  /\ cursor' = 0
  /\ task' = 1
  /\ prompted' = FALSE
  /\ wrote' = FALSE
  /\ evalRan' = FALSE
  /\ reported' = {}
  /\ failTask' = "none"
  /\ initStore' = store
  /\ UNCHANGED <<first, env, store, latest, faults, failures, notices,
                 warnings, crashStep, written, loopLatest>>
  /\ saveOk' = FALSE
  /\ saveRaised' = FALSE
  /\ loadCalls' = 0
  /\ resumedFrom' = None
  /\ val_cursor' = [i \in 1..NumValSets |-> 0]
  /\ valEvald' = <<>>
  /\ roundLog' = <<>>
  /\ loggedAt' = None
  /\ attempts' = attempts + 1
  /\ UNCHANGED <<ownData, loadedPrior>>

\* lines 31-32: parse_args(), json.load(open(args.config))
ParseArgs ==
  /\ pc = "args"
  /\ pc' = "confirm"
  /\ UNCHANGED <<first, exc, env, clean_start, step, train_load_restore,
                 cursor, task, store, latest, faults, failures, notices,
                 warnings, prompted, wrote, evalRan, reported, failTask,
                 crashStep, written, loopLatest, initStore>>
  /\ UNCHANGED <<val_cursor, attemptObs, lifeObs, iterObs>>

\* lines 34-37: if args.new: print(...); input("Hit enter to continue")
Confirm ==
  /\ pc = "confirm"
  /\ pc' = "build"
  /\ prompted' = args_new
  /\ UNCHANGED <<first, exc, env, clean_start, step, train_load_restore,
                 cursor, task, store, latest, faults, failures, notices,
                 warnings, wrote, evalRan, reported, failTask, crashStep,
                 written, loopLatest, initStore>>
  /\ UNCHANGED <<val_cursor, attemptObs, lifeObs, iterObs>>

\* lines 39-66: clean_start = args.new and first; ...; build_model(...)
BuildModel ==
  /\ pc = "build"
  /\ pc' = "save0"
  /\ clean_start' = CleanStart(args_new, first)
  /\ UNCHANGED <<first, exc, env, step, train_load_restore, cursor, task,
                 store, latest, faults, failures, notices, warnings, prompted,
                 wrote, evalRan, reported, failTask, crashStep, written,
                 loopLatest, initStore>>
  /\ UNCHANGED <<val_cursor, attemptObs, lifeObs, iterObs>>

\* lines 69-71: t.save(0, ..., init=True, overwrite=clean_start) succeeds
SaveInitOk ==
  /\ pc = "save0"
  /\ ~SaveInitConflict(store, clean_start)
  /\ store' = SaveInit(store)
  /\ latest' = 0
  /\ step' = 0
  /\ train_load_restore' = None
  /\ pc' = "dataset"
  /\ UNCHANGED <<first, exc, env, clean_start, cursor, task, faults,
                 failures, notices, warnings, prompted, wrote, evalRan,
                 reported, failTask, crashStep, written, loopLatest,
                 initStore>>
  /\ saveOk' = TRUE
  /\ ownData' = TRUE
  /\ UNCHANGED <<val_cursor, saveRaised, loadCalls, resumedFrom, loadedPrior,
                 attempts, iterObs>>

\* lines 69, 72-73: the save raises k (the conflict, or a fault of kind k).
\* An Exception is caught at line 72 and line 73 prints the notice: the
\* print returns (h = "none") and the attempt goes on to line 74, or the
\* print raises h, or a KeyboardInterrupt arrives before (p = 0) or after
\* (p = 1) the notice is out. Anything but an Exception leaves main at once
SaveInitRaise(k, h, p) ==
  /\ pc = "save0"
  /\ \E f \in 0..1 :      \* f = 1: the save's exception is an injected fault
       /\ f = 0 => \/ k = "KeyboardInterrupt"
                   \/ k = "Exception" /\ SaveInitConflict(store, clean_start)
       /\ f = 1 => k # "KeyboardInterrupt"
       /\ LET g == IF h \in {"Exception", "SystemExit"} THEN 1 ELSE 0
          IN  /\ faults + f + g <= faultBudget
              /\ faults' = faults + f + g
  /\ IF SaveHandlerCatches(k)
       THEN /\ notices' = notices + p
            /\ IF h = "none"
                 THEN /\ p = 1
                      /\ pc' = "load"
                      /\ UNCHANGED <<exc, crashStep>>
                 ELSE /\ p \in 0..(IF h = "KeyboardInterrupt" THEN 1 ELSE 0)
                      /\ pc' = "except"
                      /\ exc' = h
                      /\ crashStep' = None
       ELSE /\ h = "none"
            /\ p = 0
            /\ pc' = "except"
            /\ exc' = k
            /\ crashStep' = None
            /\ UNCHANGED notices
  /\ UNCHANGED <<first, env, clean_start, step, train_load_restore, cursor,
                 task, store, latest, failures, warnings, prompted, wrote,
                 evalRan, reported, failTask, written, loopLatest, initStore>>
  /\ saveRaised' = (k = "Exception")
  /\ UNCHANGED <<val_cursor, saveOk, loadCalls, resumedFrom, lifeObs, iterObs>>

\* lines 74-78: step, aux = t.load(...); train_load_restore = aux.get(...)
LoadCkpt ==
  /\ pc = "load"
  /\ IF store = {}
       THEN \* nothing to load: t.load raises
            /\ pc' = "except"
            /\ exc' = "Exception"
            /\ crashStep' = None
            /\ UNCHANGED <<step, train_load_restore, warnings>>
       ELSE /\ step' = Load(store, latest)[1]
            /\ train_load_restore' = AuxGet(Load(store, latest)[2], "train_loader")
            /\ warnings' = IF train_load_restore' = None
                             THEN warnings + 1 ELSE warnings
            /\ pc' = "dataset"
            /\ UNCHANGED <<exc, crashStep>>
  /\ UNCHANGED <<first, env, clean_start, cursor, task, store, latest,
                 faults, failures, notices, prompted, wrote, evalRan,
                 reported, failTask, written, loopLatest, initStore>>
  /\ loadCalls' = loadCalls + 1
  /\ IF store = {}
       THEN UNCHANGED <<resumedFrom, loadedPrior>>
       ELSE /\ resumedFrom' = step'
            /\ loadedPrior' = (loadedPrior \/ ~ownData)
  /\ UNCHANGED <<val_cursor, saveOk, saveRaised, ownData, attempts, iterObs>>

\* lines 80-98: train_dataset = TFRecordNewInputs(..., restore_state=...)
Dataset ==
  /\ pc = "dataset"
  /\ cursor' = TFRecordNewInputs(train_load_restore)
  /\ pc' = "compile"
  /\ UNCHANGED <<first, exc, env, clean_start, step, train_load_restore,
                 task, store, latest, faults, failures, notices, warnings,
                 prompted, wrote, evalRan, reported, failTask, crashStep,
                 written, loopLatest, initStore>>
  /\ val_cursor' = [i \in 1..NumValSets |-> 0]
  /\ UNCHANGED <<attemptObs, lifeObs, iterObs>>

\* lines 100-109: t.train(train_dataset.get_samples()); eval; wandb.init
Compile ==
  /\ pc = "compile"
  /\ cursor' = GetSamples(cursor)
  /\ pc' = "train"
  /\ UNCHANGED <<first, exc, env, clean_start, step, train_load_restore,
                 task, store, latest, faults, failures, notices, warnings,
                 prompted, wrote, evalRan, reported, failTask, crashStep,
                 written, loopLatest, initStore>>
  /\ val_cursor' = [i \in 1..NumValSets |-> GetSamples(val_cursor[i])]
  /\ UNCHANGED <<attemptObs, lifeObs, iterObs>>

\* lines 112-113: loss, last_loss = t.train(train_dataset.get_samples())
TrainStep ==
  /\ pc = "train"
  /\ cursor' = GetSamples(cursor)
  /\ wrote' = FALSE
  /\ evalRan' = FALSE
  /\ reported' = {}
  /\ pc' = "ckpt"
  /\ UNCHANGED <<first, exc, env, clean_start, step, train_load_restore,
                 task, store, latest, faults, failures, notices, warnings,
                 prompted, failTask, crashStep, written, loopLatest,
                 initStore>>
  /\ roundLog' = <<"draw", "train", "report">>
  /\ loggedAt' = step
  /\ valEvald' = <<>>
  /\ UNCHANGED <<val_cursor, attemptObs, lifeObs>>

\* lines 115-119: the checkpoint schedule and the save
Checkpoint ==
  /\ pc = "ckpt"
  /\ IF CkptDue(step, ckpt_every)
       THEN /\ store' = SaveStep(store, latest, step,
                                 MakeAux(GetState(cursor)),
                                 DeleteOld(step, keep_every))
            /\ latest' = step
            /\ wrote' = TRUE
            /\ written' = written \cup {<<step, GetState(cursor)>>}
            /\ loopLatest' = step
       ELSE UNCHANGED <<store, latest, wrote, written, loopLatest>>
  /\ pc' = "val"
  /\ UNCHANGED <<first, exc, env, clean_start, step, train_load_restore,
                 cursor, task, faults, failures, notices, warnings, prompted,
                 evalRan, reported, failTask, crashStep, initStore>>
  /\ roundLog' = roundLog \o <<"ckpt_check">>
                   \o (IF CkptDue(step, ckpt_every) THEN <<"save">> ELSE <<>>)
  /\ ownData' = (ownData \/ CkptDue(step, ckpt_every))
  /\ UNCHANGED <<val_cursor, attemptObs, loadedPrior, attempts, valEvald,
                 loggedAt>>

\* lines 121-131: the evaluation schedule and the validation sets
Validate ==
  /\ pc = "val"
  /\ IF ValDue(step, val_every)
       THEN /\ evalRan' = TRUE
            /\ task' = 1
            /\ pc' = "bench"
       ELSE /\ pc' = "inc"
            /\ UNCHANGED <<evalRan, task>>
  /\ UNCHANGED <<first, exc, env, clean_start, step, train_load_restore,
                 cursor, store, latest, faults, failures, notices, warnings,
                 prompted, wrote, reported, failTask, crashStep, written,
                 loopLatest, initStore>>
  /\ IF ValDue(step, val_every)
       THEN /\ valEvald' = [i \in 1..NumValSets |->
                              ValPass(SampleOnce(ValSetLen[i], val_cursor[i]),
                                      val_batches)]
            /\ roundLog' = roundLog \o <<"eval_check">>
                             \o [i \in 1..NumValSets |-> "val"]
       ELSE /\ roundLog' = roundLog \o <<"eval_check">>
            /\ UNCHANGED valEvald
  /\ UNCHANGED <<val_cursor, attemptObs, lifeObs, loggedAt>>

\* lines 133-147: one benchmark task runs and its results are reported
Benchmark ==
  /\ pc = "bench"
  /\ reported' = reported \cup {Tasks[task]}
  /\ IF task = Len(Tasks)
       THEN pc' = "inc" /\ task' = 1
       ELSE pc' = "bench" /\ task' = task + 1
  /\ UNCHANGED <<first, exc, env, clean_start, step, train_load_restore,
                 cursor, store, latest, faults, failures, notices, warnings,
                 prompted, wrote, evalRan, failTask, crashStep, written,
                 loopLatest, initStore>>
  /\ roundLog' = Append(roundLog, Tasks[task])
  /\ UNCHANGED <<val_cursor, attemptObs, lifeObs, valEvald, loggedAt>>

\* line 149 adding 2
IncrementSkipping ==
  /\ pc = "inc"
  /\ step < MaxStep
  /\ step' = step + 2
  /\ pc' = "train"
  /\ UNCHANGED <<first, exc, env, clean_start, train_load_restore, cursor,
                 task, store, latest, faults, failures, notices, warnings,
                 prompted, wrote, evalRan, reported, failTask, crashStep,
                 written, loopLatest, initStore>>
  /\ roundLog' = Append(roundLog, "inc")
  /\ UNCHANGED <<val_cursor, attemptObs, lifeObs, valEvald, loggedAt>>

\* line 149: step += 1
Increment ==
  /\ pc = "inc"
  /\ step < MaxStep
  /\ step' = step + 1
  /\ pc' = "train"
  /\ UNCHANGED <<first, exc, env, clean_start, train_load_restore, cursor,
                 task, store, latest, faults, failures, notices, warnings,
                 prompted, wrote, evalRan, reported, failTask, crashStep,
                 written, loopLatest, initStore>>
  /\ roundLog' = Append(roundLog, "inc")
  /\ UNCHANGED <<val_cursor, attemptObs, lifeObs, valEvald, loggedAt>>

\* the number of effects on the state the block at pc has, in code order
RaisePoints ==
  CASE pc = "confirm" -> IF args_new THEN 1 ELSE 0  \* line 37 waits on input()
    [] pc = "build"   -> 1                   \* line 42
    [] pc = "dataset" -> 1                   \* line 80
    [] pc = "compile" -> NumValSets + 1      \* line 101, then line 106 per set
    [] pc = "train"   -> 4                   \* line 112 is reached, get_samples,
                                             \* t.train, wandb.log (line 113)
    [] pc = "ckpt"    -> IF CkptDue(step, ckpt_every) THEN 2 ELSE 1
                                             \* the test of line 115, t.save
    [] pc = "val"     -> IF ValDue(step, val_every) THEN NumValSets + 1 ELSE 1
                                             \* the test of line 121, then one
                                             \* per validation set (122-131)
    [] pc = "bench"   -> 1                   \* wandb.log of the task
    [] OTHER          -> 0                   \* lines 31-32, line 149

\* a call of the block at pc can raise once p of the block's effects took
\* place: nothing is called before line 42 and line 112, line 37 is under
\* "if args.new", lines 116-119 under the checkpoint schedule, lines 122-147
\* under the evaluation schedule, and line 149 calls nothing
CallsMade(p) ==
  CASE pc = "args"    -> TRUE                \* parse_args, open, json.load
    [] pc = "confirm" -> args_new            \* print (35-36), input (37)
    [] pc = "build"   -> p = 1               \* lines 45-66
    [] pc = "dataset" -> TRUE                \* line 80, lines 91-98
    [] pc = "compile" -> TRUE                \* lines 101-109
    [] pc = "train"   -> p \in 1..3          \* get_samples, t.train, wandb.log
    [] pc = "ckpt"    -> CkptDue(step, ckpt_every) /\ p = 1
    [] pc = "val"     -> ValDue(step, val_every) /\ p \in 1..NumValSets
    [] pc = "bench"   -> TRUE                \* run, wandb.log, print
    [] OTHER          -> FALSE

\* main is left, outside the try of lines 68-78, by an exception of kind k
\* after p of the effects of the block at pc: the statements before the
\* raising one have taken effect, the raising call has none. An Exception or
\* SystemExit is raised by a call; a KeyboardInterrupt arrives anywhere,
\* also before the first statement of the block and after its last call
Raise(k, p) ==
  /\ pc \in MainPCs \ {"save0", "load"}
  /\ p \in 0..RaisePoints
  /\ IF k = "KeyboardInterrupt"
       THEN faults' = faults
       ELSE CallsMade(p) /\ faults < faultBudget /\ faults' = faults + 1
  /\ pc' = "except"
  /\ exc' = k
  /\ crashStep' = IF pc \in LoopPCs THEN step ELSE None
  /\ failTask' = IF pc = "bench" THEN Tasks[task] ELSE "none"
  \* line 37: the attempt is waiting on input() when it raises
  /\ prompted' = IF pc = "confirm" /\ p = 1 THEN TRUE ELSE prompted
  \* line 42
  /\ clean_start' = IF pc = "build" /\ p = 1
                      THEN CleanStart(args_new, first)
                      ELSE clean_start
  \* line 80 built the provider; lines 101, 112 drew a batch
  /\ cursor' = IF pc = "dataset" /\ p = 1
                 THEN TFRecordNewInputs(train_load_restore)
                 ELSE IF (pc = "compile" /\ p >= 1) \/ (pc = "train" /\ p >= 2)
                        THEN GetSamples(cursor)
                        ELSE cursor
  \* line 106 drew a batch of the first p - 1 validation sets
  /\ val_cursor' = IF pc = "compile"
                     THEN [i \in 1..NumValSets |->
                             IF i <= p - 1 THEN GetSamples(val_cursor[i])
                                           ELSE val_cursor[i]]
                     ELSE val_cursor
  \* lines 116-119: the save returned
  /\ IF pc = "ckpt" /\ p = 2
       THEN /\ store' = SaveStep(store, latest, step,
                                 MakeAux(GetState(cursor)),
                                 DeleteOld(step, keep_every))
            /\ latest' = step
            /\ written' = written \cup {<<step, GetState(cursor)>>}
            /\ loopLatest' = step
            /\ ownData' = TRUE
       ELSE UNCHANGED <<store, latest, written, loopLatest, ownData>>
  \* a new iteration begins when line 112 is reached
  /\ wrote' = IF pc = "train" /\ p >= 1 THEN FALSE
              ELSE IF pc = "ckpt" /\ p = 2 THEN TRUE ELSE wrote
  \* lines 134, 138, 142, 146: the task was reported, its print raises
  /\ reported' = IF pc = "train" /\ p >= 1 THEN {}
                 ELSE IF pc = "bench" /\ p = 1
                   THEN reported \cup {Tasks[task]}
                   ELSE reported
  \* line 121 was passed and the first p - 1 validation sets were reported
  /\ evalRan' = IF pc = "train" /\ p >= 1 THEN FALSE
                ELSE IF pc = "val" /\ p >= 1 /\ ValDue(step, val_every)
                  THEN TRUE
                  ELSE evalRan
  /\ valEvald' = IF pc = "train" /\ p >= 1 THEN <<>>
                 ELSE IF pc = "val" /\ p >= 1 /\ ValDue(step, val_every)
                   THEN [i \in 1..(p - 1) |->
                           ValPass(SampleOnce(ValSetLen[i], val_cursor[i]),
                                   val_batches)]
                   ELSE valEvald
  /\ roundLog' =
       IF pc = "train" /\ p >= 1
         THEN SubSeq(<<"draw", "train", "report">>, 1, p - 1)
       ELSE IF pc = "ckpt" /\ p >= 1
         THEN roundLog \o <<"ckpt_check">>
                \o (IF p = 2 THEN <<"save">> ELSE <<>>)
       ELSE IF pc = "val" /\ p >= 1
         THEN roundLog \o <<"eval_check">> \o [i \in 1..(p - 1) |-> "val"]
       ELSE IF pc = "bench" /\ p = 1
         THEN Append(roundLog, Tasks[task])
       ELSE roundLog
  /\ loggedAt' = IF pc = "train" /\ p = 4 THEN step ELSE loggedAt
  /\ UNCHANGED <<first, env, step, train_load_restore, task, failures,
                 notices, warnings, initStore, attemptObs, loadedPrior,
                 attempts>>

\* lines 74-78 are left by an exception of kind k after p of their effects:
\*   p = 0  a KeyboardInterrupt arrives before t.load is entered
\*   p = 1  t.load is entered and raises k
\*   p = 2  t.load returned and line 74 assigned step
\*   p = 3  line 75 assigned train_load_restore; if it is None the print of
\*          line 78 is the call that raises k
\*   p = 4  the warning of line 78 is out
\* (t.load raising an Exception on an empty store is in LoadCkpt)
LoadRaise(k, p) ==
  /\ pc = "load"
  /\ p \in 0..4
  /\ p >= 2 => store # {}
  /\ LET restore == IF store # {}
                      THEN AuxGet(Load(store, latest)[2], "train_loader")
                      ELSE None
     IN  /\ p = 4 => restore = None
         /\ k # "KeyboardInterrupt" =>
              \/ p = 1 /\ (k = "Exception" => store # {})
              \/ p = 3 /\ restore = None
         /\ train_load_restore' = IF p >= 3 THEN restore ELSE train_load_restore
  /\ IF k = "KeyboardInterrupt"
       THEN faults' = faults
       ELSE faults < faultBudget /\ faults' = faults + 1
  /\ pc' = "except"
  /\ exc' = k
  /\ crashStep' = None
  /\ loadCalls' = IF p >= 1 THEN loadCalls + 1 ELSE loadCalls
  /\ IF p >= 2
       THEN /\ step' = Load(store, latest)[1]
            /\ resumedFrom' = step'
            /\ loadedPrior' = (loadedPrior \/ ~ownData)
       ELSE UNCHANGED <<step, resumedFrom, loadedPrior>>
  /\ warnings' = IF p = 4 THEN warnings + 1 ELSE warnings
  /\ UNCHANGED <<first, env, clean_start, cursor, task, store, latest,
                 failures, notices, prompted, wrote, evalRan, reported,
                 failTask, written, loopLatest, initStore>>
  /\ UNCHANGED <<val_cursor, saveOk, saveRaised, ownData, attempts, iterObs>>

\* lines 157-161: except KeyboardInterrupt: break / except: pass; first = False
Handler ==
  /\ pc = "except"
  /\ IF Breaks(exc)
       THEN /\ pc' = "done"
            /\ UNCHANGED <<first, failures>>
       ELSE /\ pc' = "supervisor"
            /\ first' = FALSE
            /\ failures' = failures + 1
  /\ UNCHANGED <<exc, env, clean_start, step, train_load_restore, cursor,
                 task, store, latest, faults, notices, warnings, prompted,
                 wrote, evalRan, reported, failTask, crashStep, written,
                 loopLatest, initStore>>
  /\ UNCHANGED <<val_cursor, attemptObs, lifeObs, iterObs>>

\* lines 153-154, 161: a KeyboardInterrupt that arrives between two calls of
\* main is raised outside the try of lines 155-160; nothing catches it and
\* the process ends, main is not called again
SupervisorInterrupt ==
  /\ pc = "supervisor"
  /\ pc' = "done"
  /\ exc' = "KeyboardInterrupt"
  /\ UNCHANGED <<first, env, clean_start, step, train_load_restore, cursor,
                 task, store, latest, faults, failures, notices, warnings,
                 prompted, wrote, evalRan, reported, failTask, crashStep,
                 written, loopLatest, initStore>>
  /\ UNCHANGED <<val_cursor, attemptObs, lifeObs, iterObs>>

Next ==
  \/ SupervisorCall
  \/ SupervisorInterrupt
  \/ ParseArgs
  \/ Confirm
  \/ BuildModel
  \/ SaveInitOk
  \/ \E k \in ExcKinds : \E h \in ExcKinds \cup {"none"} : \E p \in 0..1 :
       SaveInitRaise(k, h, p)
  \/ LoadCkpt
  \/ \E k \in ExcKinds : \E p \in 0..4 : LoadRaise(k, p)
  \/ Dataset
  \/ Compile
  \/ TrainStep
  \/ Checkpoint
  \/ Validate
  \/ Benchmark
  \/ Increment
  \/ \E k \in ExcKinds : \E p \in 0..(NumValSets + 4) : Raise(k, p)
  \/ Handler

Spec == Init /\ [][Next]_vars

TypeOK ==
  /\ pc \in MainPCs \cup {"supervisor", "except", "done"}
  /\ first \in BOOLEAN
  /\ exc \in ExcKinds \cup {"none"}
  /\ step \in 0..MaxStep
  /\ cursor \in Nat
  /\ task \in 1..Len(Tasks)
  /\ latest \in {None} \cup 0..MaxStep
  /\ (store # {} => latest \in Steps(store))
  /\ \A c \in store : Cardinality({d \in store : d.step = c.step}) = 1
  /\ faults \in 0..faultBudget
  /\ attempts \in 0..(faultBudget + 1)

\* the supervisor does not read the retention and evaluation settings: they
\* are fixed here, the checkpoint interval and the prior data are not; more
\* faults are injected, so that attempts after the first fail as well
InitSupervisor ==
  /\ InitProcess
  /\ faultBudget = MaxSupervisorFaults
  /\ keep_every = 1
  /\ val_every = 1
  /\ val_batches = 1

\* the supervisor and main run sequentially: a raised exception reaches the
\* handler, and the loop of lines 154-161 goes on to its next iteration
FairSpec ==
  /\ InitSupervisor
  /\ [][Next]_vars
  /\ WF_vars(Handler)
  /\ WF_vars(SupervisorCall)

\* ----------------------------------------------------------------- claims
Present(st, s) == s \in Steps(st)

\* C1: a checkpoint the step loop wrote at step S is still present after the
\* next step-loop checkpoint write iff S % keep_every = 0.
C1_Retention ==
  [][(pc = "ckpt" /\ CkptDue(step, ckpt_every) /\ pc' = "val"
        /\ loopLatest \notin {None, step})
       => (Present(store', loopLatest) <=> loopLatest % keep_every = 0)]_vars

\* C2: overwrite is authorized exactly when --new was given and the attempt
\* is the first; the initialization of a non-first attempt leaves every
\* checkpoint that existed when the attempt started in place.
C2_DestructiveInitGating ==
  /\ pc \in {"save0", "load", "dataset", "compile"} \cup LoopPCs
       => (clean_start <=> (args_new /\ first))
  /\ (~first /\ pc \in {"load", "dataset", "compile"})
       => initStore \subseteq store

C2_Witness ==
  /\ ~first /\ args_new /\ initStore # {}
  /\ pc = "load"
  /\ store = initStore

\* C3: after a non-cancellation failure, with a durable checkpoint present,
\* the next attempt enters its step loop with step equal to the step of the
\* most recent checkpoint, and its first training batch is drawn at the
\* cursor recorded in that checkpoint.
C3_CrashRecovery ==
  [][(pc = "compile" /\ pc' = "train" /\ ~first /\ store # {})
       => /\ step' = latest
          /\ \A p \in Ckpt(store, latest).aux :
               p[1] = "train_loader" => cursor = p[2]]_vars

C3_Witness ==
  /\ ~first /\ pc = "train" /\ ~wrote
  /\ crashStep # None /\ crashStep > step
  /\ step = latest /\ step > 0
  /\ train_load_restore > 0
  /\ cursor = train_load_restore + 1

\* C4: for every checkpoint the step loop writes, over all attempts, the
\* recorded cursor minus the recorded step is the same constant.
C4_NoSkew ==
  \A a \in written : \A b \in written : a[2] - a[1] = b[2] - b[1]

\* C5: an iteration writes a checkpoint iff step % ckpt_every = 0 and
\* step # 0, step being the counter's value in that iteration.
C5_CheckpointSchedule ==
  /\ pc = "ckpt" => ~wrote
  /\ pc \in {"val", "bench", "inc"}
       => (wrote <=> (step % ckpt_every = 0 /\ step # 0))
  /\ (pc \in {"val", "bench", "inc"} /\ wrote)
       => (Present(store, step) /\ latest = step)

C5_Witness ==
  /\ pc = "inc" /\ wrote /\ step = ckpt_every /\ ckpt_every = 2

\* C6: an iteration runs an evaluation round iff step % val_every = 0,
\* step 0 included; a round that completes has run every benchmark task.
C6_EvaluationSchedule ==
  /\ pc \in {"ckpt", "val"} => ~evalRan
  /\ pc \in {"bench", "inc"} => (evalRan <=> step % val_every = 0)
  /\ pc = "inc" =>
       reported = (IF evalRan THEN {Tasks[i] : i \in 1..Len(Tasks)} ELSE {})

C6_Witness ==
  /\ pc = "inc" /\ step = 0 /\ val_every = 2 /\ evalRan
  /\ Cardinality(reported) = Len(Tasks)

\* C7: when a benchmark task raises, the attempt is not aborted and the
\* remaining tasks of the round are still reported.
C7_BenchmarkIsolation ==
  failTask # "none" =>
    /\ pc # "except"
    /\ \A i \in 1..Len(Tasks) :
         (\E j \in 1..Len(Tasks) : j < i /\ Tasks[j] = failTask)
           => Tasks[i] \in reported

\* C8: when the next attempt starts, every swallowed failure so far has
\* produced a notice.
C8_FailuresLogged ==
  pc = "args" => notices >= failures

\* C9 as stated: the supervisor stops only on KeyboardInterrupt, and then for
\* good; a KeyboardInterrupt stops it; after any other failure of an attempt
\* a new attempt is always started.
C9_SupervisorTermination ==
  /\ [](pc = "done" => exc = "KeyboardInterrupt")
  /\ [][pc = "done" => pc' = "done"]_vars
  /\ [][(pc = "except" /\ exc # "KeyboardInterrupt")
          => (pc' = "supervisor" /\ failures' = failures + 1)]_vars
  /\ (pc = "except" /\ exc = "KeyboardInterrupt") ~> (pc = "done")
  /\ (pc = "except" /\ exc # "KeyboardInterrupt") ~> (pc = "args")

\* C9 amended: the supervisor stops only on KeyboardInterrupt, raised by an
\* attempt or between two attempts, and then for good; any other failure of
\* an attempt is swallowed, and a new attempt is started after it unless a
\* KeyboardInterrupt arrives first.
C9_TerminationOnInterrupt ==
  /\ [](pc = "done" => exc = "KeyboardInterrupt")
  /\ [][pc = "done" => (pc' = "done" /\ attempts' = attempts)]_vars
  /\ [][(pc = "except" /\ exc # "KeyboardInterrupt")
          => (pc' = "supervisor" /\ failures' = failures + 1)]_vars
  /\ [][(pc = "supervisor" /\ pc' = "done") => exc' = "KeyboardInterrupt"]_vars
  /\ (pc = "except" /\ exc = "KeyboardInterrupt") ~> (pc = "done")
  /\ (pc = "except" /\ exc # "KeyboardInterrupt")
       ~> (pc = "args" \/ (pc = "done" /\ exc = "KeyboardInterrupt"))

\* the first attempt and a restarted one failed and were swallowed, and the
\* interrupt arrived before the next attempt
C9_Witness ==
  /\ pc = "done" /\ exc = "KeyboardInterrupt"
  /\ failures = MaxSupervisorFaults /\ failures >= 2
  /\ attempts = failures /\ ~first

\* C10 as stated: the attempt after a failure in the step loop resumes at
\* most one step behind the step that was in flight.
C10_LoseAtMostOneStep ==
  [][(pc = "compile" /\ pc' = "train" /\ crashStep # None)
       => crashStep - step' <= 1]_vars

\* C10 amended: the attempt after a failure in the step loop resumes at
\* most ckpt_every steps behind the step that was in flight.
C10_LoseAtMostCkptEvery ==
  [][(pc = "compile" /\ pc' = "train" /\ crashStep # None)
       => crashStep - step' <= ckpt_every]_vars

C10_Witness ==
  /\ pc = "train" /\ ~first /\ ~wrote
  /\ crashStep # None /\ ckpt_every = 2
  /\ crashStep - step = ckpt_every
\* C11: within one attempt step never decreases, and in the step loop step
\* is ahead of the most recently written checkpoint by at most ckpt_every.
C11_StepDurability ==
  /\ [][(pc \in MainPCs /\ pc' \in MainPCs) => step' >= step]_vars
  /\ [](pc \in LoopPCs => (0 <= step - latest /\ step - latest <= ckpt_every))

C11_Witness ==
  /\ pc = "ckpt" /\ ckpt_every = 2 /\ step = 2
  /\ step - latest = ckpt_every

\* C14: when the loaded checkpoint's aux payload has no dataset cursor, the
\* load path does not fail: it prints the warning, keeps the loaded step,
\* restores nothing, and the training provider starts from a fresh cursor.
C14_MissingCursorDegradation ==
  /\ [][(pc = "load" /\ pc' = "dataset"
           /\ ~\E p \in Ckpt(store, latest).aux : p[1] = "train_loader")
          => /\ warnings' = warnings + 1
             /\ step' = latest
             /\ train_load_restore' = None]_vars
  /\ [][(pc = "dataset" /\ pc' = "compile" /\ warnings > 0
           /\ ~\E p \in Ckpt(store, latest).aux : p[1] = "train_loader")
          => cursor' = 0]_vars

C14_Witness ==
  /\ pc = "train" /\ failures = 0 /\ warnings = 1 /\ notices = 1
  /\ train_load_restore = None /\ step = latest /\ cursor = 1

\* C18: an attempt waits on the operator's confirmation only when its
\* initialization is authorized to overwrite (--new and first attempt).
C18_ConfirmOnlyWhenDestructive ==
  (pc \in MainPCs /\ prompted) => (args_new /\ first)
\* ---- helpers of the claims below
IsPrefix(a, b) == Len(a) <= Len(b) /\ \A i \in 1..Len(a) : a[i] = b[i]
Min(a, b) == IF a <= b THEN a ELSE b
\* the part of an iteration's log between the evaluation-schedule check and
\* the increment: the evaluation round
NotInc(x) == x # "inc"
AfterEvalCheck(log) ==
  IF \E i \in 1..Len(log) : log[i] = "eval_check"
    THEN LET k == CHOOSE i \in 1..Len(log) : log[i] = "eval_check"
         IN  SelectSeq(SubSeq(log, k + 1, Len(log)), NotInc)
    ELSE <<>>
FullRound ==
  [i \in 1..NumValSets |-> "val"]
    \o <<"lambada", "winogrande", "piqa", "hellaswag">>
FullIteration ==
  <<"draw", "train", "report", "ckpt_check">>
    \o (IF loggedAt % ckpt_every = 0 /\ loggedAt # 0 THEN <<"save">> ELSE <<>>)
    \o <<"eval_check">>
    \o (IF loggedAt % val_every = 0 THEN FullRound ELSE <<>>)
    \o <<"inc">>

\* C12: in every evaluation round the validation sets come before any
\* benchmark task, and the tasks run in the order lambada, winogrande, piqa,
\* hellaswag, each reported before the next one runs.
C12_EvaluationOrdering ==
  (pc \in LoopPCs \cup {"except"}) =>
    LET r == AfterEvalCheck(roundLog)
    IN  /\ IsPrefix(r, FullRound)
        /\ (pc \in {"bench", "inc"} =>
              reported = {r[i] : i \in {j \in 1..Len(r) : r[j] # "val"}})

C12_Witness ==
  /\ pc = "inc" /\ step > 0
  /\ AfterEvalCheck(roundLog) = FullRound

\* C13: an attempt whose save at step 0 returned starts at step 0, restores
\* no cursor and never calls load; one whose save raised an Exception goes on
\* to load (unless the notice of line 73 raises or is interrupted), calls it
\* once and takes step and cursor from the loaded checkpoint; a first attempt
\* with --new and no prior data starts at step 0 without loading.
C13_InitOutcomes ==
  /\ [](pc \in {"dataset", "compile"} \cup LoopPCs => (saveOk \/ saveRaised))
  /\ [](saveOk =>
          /\ loadCalls = 0 /\ resumedFrom = None /\ train_load_restore = None
          /\ pc \in {"dataset", "compile"} => step = 0)
  /\ [][(pc = "save0" /\ SaveInitConflict(store, clean_start)
           /\ faults' = faults /\ exc' # "KeyboardInterrupt")
          => (pc' = "load" /\ saveRaised' /\ loadCalls' = 0)]_vars
  /\ [](pc = "load" => (saveRaised /\ loadCalls = 0))
  /\ []((saveRaised /\ pc \in {"dataset", "compile"} \cup LoopPCs)
          => loadCalls = 1)
  /\ []((saveRaised /\ pc \in {"dataset", "compile"}) =>
          /\ step = latest
          /\ resumedFrom = latest
          /\ \A p \in Ckpt(store, latest).aux :
               p[1] = "train_loader" => train_load_restore = p[2]
          /\ (~\E p \in Ckpt(store, latest).aux : p[1] = "train_loader")
               => train_load_restore = None)
  /\ []((args_new /\ first /\ initStore = {} /\ pc \in {"dataset", "compile"})
          => (saveOk /\ step = 0 /\ train_load_restore = None
                /\ loadCalls = 0))

C13_Witness ==
  /\ args_new /\ first /\ initStore = {}
  /\ pc = "compile" /\ saveOk /\ step = 0 /\ cursor = 0 /\ loadCalls = 0

\* C15: an iteration is, in this order, one batch draw, one training update,
\* the report at the current step, the checkpoint check, the evaluation
\* check, and the increment of step by exactly 1; the save and the
\* evaluation round of an iteration use the step the report used.
C15_StepLoopOrder ==
  /\ []((pc \in LoopPCs /\ roundLog # <<>>) =>
          /\ IsPrefix(roundLog, FullIteration)
          /\ pc \in {"ckpt", "val", "bench", "inc"} => step = loggedAt
          /\ (pc \in {"val", "bench", "inc"} /\ wrote) => latest = loggedAt
          /\ pc = "train" => (roundLog = FullIteration /\ step = loggedAt + 1))
  /\ [][(pc = "train" /\ pc' \in LoopPCs)
          => (pc' = "ckpt" /\ cursor' = cursor + 1 /\ step' = step)]_vars
  /\ [][(pc \in LoopPCs \ {"train"} /\ pc' \in LoopPCs)
          => cursor' = cursor]_vars
  /\ [][(pc \in LoopPCs /\ pc' \in LoopPCs /\ step' # step)
          => (pc = "inc" /\ pc' = "train" /\ step' = step + 1)]_vars

C15_Witness ==
  /\ pc = "train" /\ roundLog = FullIteration
  /\ Len(roundLog) = 11 + NumValSets
  /\ step = loggedAt + 1

\* C16: in every round, for every validation set, the pass starts at the
\* beginning of the set and passes min(val_batches, batches of one pass)
\* batches to t.eval; validation changes neither step nor the training cursor.
C16_BoundedValidation ==
  /\ []((pc \in {"bench", "inc"} /\ evalRan) => Len(valEvald) = NumValSets)
  /\ [](\A i \in 1..Len(valEvald) :
          /\ Len(valEvald[i]) = Min(val_batches, ValSetLen[i])
          /\ \A k \in 1..Len(valEvald[i]) : valEvald[i][k] = k - 1)
  /\ [][pc = "val" => (step' = step /\ cursor' = cursor)]_vars

C16_Witness ==
  /\ pc = "bench" /\ step > 0 /\ val_every = 1 /\ val_batches = 2
  /\ valEvald = << <<0>>, <<0, 1>> >>
  /\ val_cursor[1] = 1

\* C17: an attempt that resumed from the checkpoint of step S writes only
\* checkpoints of steps greater than S.
C17_NoRewriteOnResume ==
  (pc \in {"val", "bench", "inc"} /\ wrote /\ resumedFrom # None)
    => step > resumedFrom

\* C19: when --new was given, no attempt loads and trains on from checkpoint
\* data that no attempt of this process wrote.
C19_CleanStartHonoured ==
  args_new => ~(loadedPrior /\ pc \in LoopPCs)
====
